---- MODULE Spec2Model ----
(***************************************************************************)
(* A model of PromiseIDB (src/src/promise-idb.ts, lines 20-415): the       *)
(* promise facade over IndexedDB.  The state is the orchestrator's         *)
(* name -> handle map, the calls in progress (each call's position, its    *)
(* promise and what its hooks were handed), the microtask queue that       *)
(* resumes a call after an await, and the platform store the code talks    *)
(* to: databases, connections, open requests and data requests.  Every     *)
(* action is one run-to-completion piece of JavaScript: the synchronous    *)
(* part of a public method, the continuation after an await, or one event  *)
(* handler the platform invokes.                                           *)
(***************************************************************************)
EXTENDS Integers, Sequences, FiniteSets, TLC

\* ------------------------------------------------------------------ bounds
\* The number of public calls made on the orchestrator in one behaviour.
MaxCalls == 2
\* The largest explicit version number a caller puts in params.version.
MaxVersionArg == 2

\* ------------------------------------------------------------- input sets
\* params.version is optional (IPromiseIDBParams.version?: number).
NoVersion == -1
\* IDBDatabase | undefined: the absent handle.
NoHandle == 0
\* No call: the owner of nothing.
NoCall == 0

Names == {"A"}
\* params.name omitted: undefined, the key of the map entry and (as the
\* string the platform converts it to) the name of the database opened.
MissingName == ""
\* The store names a caller passes to openDB and the schema mutations.
NameArgs == Names \cup {MissingName}
\* A second store, which exists with its collection: the data operations
\* and getDBVersion are called on it as well.
OtherName == "B"
DataNames == Names \cup {OtherName}
AllNames == NameArgs \cup DataNames
Stores == {"s1"}
IndexNames == {"i1"}
\* CreateIndexParams | CreateIndexParams[]: one index spec, or an array.
IndexArgs == {<<"i1">>, <<"i1", "i1">>}
VersionArgs == {NoVersion} \cup (0 .. MaxVersionArg)
\* type OSInstanceMethods.
DataMethods == {"add", "clear", "delete", "get", "put"}
\* An absent key argument, and a value without an id field.
NoKey == "none"
\* The keys a caller passes: a valid key, and a value that is no valid key
\* (an object, a boolean).
BadKey == "bad"
Keys == {"k1", BadKey}
\* The id field of the value a caller passes: absent, or already there.
DocIds == {NoKey, "k0"}
CallIds == 1 .. MaxCalls
\* A call opens at most two connections: #getIDBDatabase's and openDB's.
MaxHandles == 2 * MaxCalls

VARIABLES
    hasIDB,    \* window has the indexedDB capability
    dbs,       \* the platform's databases: name -> version, stores, indexes
    handles,   \* the connections ever created, by handle number
    opens,     \* the open requests in flight, in the order they were issued
    reqs,      \* the data requests in flight
    cache,     \* #idbDatabaseMap: name -> handle number (NoHandle: no entry)
    calls,     \* the public calls: parameters, position, promise, hook log
    mq         \* the microtask queue: calls to resume after their await

vars == <<hasIDB, dbs, handles, opens, reqs, cache, calls, mq>>

\* --------------------------------------------------------------- platform
NoDb == [version |-> 0, stores |-> {}, indexes |-> {}, records |-> {}]

\* A connection as window.indexedDB.open delivers it.
NewHandle(name, version, stores) ==
    [name |-> name, version |-> version, stores |-> stores,
     closed |-> FALSE, upgrading |-> FALSE, onerror |-> NoCall,
     succeeded |-> FALSE]

\* An open request as window.indexedDB.open(name, version) returns it.
\* phase says whose handlers are attached: "resolve" is #getIDBDatabase's
\* request, "open" is openDB's.
OpenRequest(owner, phase, name, version) ==
    [owner |-> owner, phase |-> phase, name |-> name, version |-> version,
     state |-> "queued", handle |-> NoHandle, fate |-> "none", old |-> NoDb]

\* IDBDatabase.close() with the optional chaining of db?.close().
CloseHandleSkipped(hs, h) == hs

CloseHandle(hs, h) ==
    IF h = NoHandle THEN hs ELSE [hs EXCEPT ![h].closed = TRUE]

\* db?.version ? db?.version + 1 : 1
NextVersionSame(hs, h) ==
    IF h # NoHandle /\ hs[h].version # 0 THEN hs[h].version ELSE 1

NextVersion(hs, h) ==
    IF h # NoHandle /\ hs[h].version # 0 THEN hs[h].version + 1 ELSE 1

\* { version: nextVersion, ...params }: a version in params wins.
NextParamsVersion(paramsVersion, nextVersion) ==
    IF paramsVersion # NoVersion THEN paramsVersion ELSE nextVersion

\* A connection still counts as open for the platform while it is not
\* closed or a request of one of its transactions is in flight.
ConnLive(h) ==
    \/ ~handles[h].closed
    \/ \E q \in reqs : q.handle = h

OtherLive(name, h) ==
    {g \in 1 .. Len(handles) : g # h /\ handles[g].name = name /\ ConnLive(g)}

\* The requests of one database name are processed in the order issued.
IsFront(i) == \A j \in 1 .. (i - 1) : opens[j].name # opens[i].name

RemoveAt(s, i) == [j \in 1 .. (Len(s) - 1) |-> IF j < i THEN s[j] ELSE s[j + 1]]

\* The version the platform opens at: the requested one, or the stored
\* one (1 for a database that does not exist yet).
WantedVersion(r) ==
    IF r.version # NoVersion THEN r.version
    ELSE IF dbs[r.name].version = 0 THEN 1 ELSE dbs[r.name].version

\* ------------------------------------------------------------------ calls
NoCallRecord ==
    [op |-> "none", name |-> "A", store |-> "s1", version |-> NoVersion,
     hooks |-> FALSE, upgrade |-> FALSE, indexes |-> <<>>, method |-> "none",
     pc |-> "idle", promise |-> "pending", observed |-> 0, settleCalls |-> 0,
     value |-> "none", res |-> "none", how |-> "none", db |-> NoHandle,
     startCache |-> NoHandle, startVersion |-> 0, nOpens |-> 0,
     openVersion |-> NoVersion, closedFirst |-> TRUE,
     onsuccessArg |-> NoHandle, nOnsuccess |-> 0, nOnerror |-> 0,
     nBlocked |-> 0, nUpgrade |-> 0, delivered |-> NoHandle,
     gotSuccess |-> FALSE, gotError |-> FALSE, routine |-> "none",
     openIssued |-> FALSE, result |-> NoVersion, cacheAtSuccess |-> NoHandle,
     dbVersion |-> 0, endVersion |-> 0, startQuiet |-> TRUE,
     gotUpgrade |-> FALSE, upgradeArg |-> NoHandle, cacheAtUpgrade |-> NoHandle,
     gotHandleError |-> FALSE,
     key |-> NoKey, docId |-> NoKey, nTx |-> 0, invoked |-> FALSE,
     sentId |-> NoKey, sentKey |-> NoKey, threw |-> "none",
     gotReqSuccess |-> FALSE, gotReqError |-> FALSE, reqResult |-> NoKey,
     nCacheSets |-> 0, pendingAtStart |-> {}]

\* resolve / reject of `new Promise((resolve, reject) => ...)`: the first
\* call settles the promise, every later one does nothing.
SettleUnguarded(cl, outcome, value) ==
    [cl EXCEPT !.settleCalls = @ + 1, !.promise = outcome,
               !.observed = @ + 1, !.value = value]

Settle(cl, outcome, value) ==
    IF cl.promise = "pending"
    THEN [cl EXCEPT !.settleCalls = @ + 1, !.promise = outcome,
                    !.observed = @ + 1, !.value = value]
    ELSE [cl EXCEPT !.settleCalls = @ + 1]

\* The calls made earlier and not settled yet.
Pending ==
    {b \in CallIds : calls[b].op # "none" /\ calls[b].promise = "pending"}

\* #setIDBDatabase(name, db)
SetIDBDatabaseAll(c, name, h) == [n \in DOMAIN c |-> h]

SetIDBDatabase(c, name, h) == [c EXCEPT ![name] = h]

Init ==
    /\ hasIDB \in BOOLEAN
    /\ dbs \in [AllNames -> {NoDb, [version |-> 1, stores |-> {"s1"}, indexes |-> {},
                                     records |-> {}]}]
    /\ dbs[MissingName] = NoDb
    /\ dbs[OtherName] # NoDb
    /\ handles = <<>>
    /\ opens = <<>>
    /\ reqs = {}
    /\ cache = [n \in AllNames |-> NoHandle]
    /\ calls = [c \in CallIds |-> NoCallRecord]
    /\ mq = <<>>

\* ------------------------------------------------- #getIDBDatabase (341-365)
\* resolve(this.#idbDatabaseMap.get(name)) and resolve(db): the await in the
\* caller resumes with the handle.
ResolveWith(cl, how, h) ==
    [cl EXCEPT !.res = "resolved", !.how = how, !.db = h, !.pc = "ready"]

\* onerror and catch of #getIDBDatabase: resolve(undefined).
ResolveAbsentRejects(cl, how) ==
    [cl EXCEPT !.res = "rejected", !.how = how, !.db = NoHandle, !.pc = "ready"]

ResolveAbsent(cl, how) ==
    [cl EXCEPT !.res = "resolved", !.how = how, !.db = NoHandle, !.pc = "ready"]

\* this.#idbDatabaseMap.has(name)
CacheHasNever(name) == FALSE

CacheHas(name) == cache[name] # NoHandle

\* The executor of #getIDBDatabase, run synchronously by the caller: a
\* cache hit resolves at once, otherwise window.indexedDB.open(name) is
\* issued (it throws when window.indexedDB is undefined).
GetIDBDatabase(c, cl0) ==
    LET cl == [cl0 EXCEPT !.startCache = cache[cl0.name],
                          !.pendingAtStart = Pending,
                          !.startQuiet = (opens = <<>>),
                          !.startVersion = IF cache[cl0.name] = NoHandle THEN 0
                                           ELSE handles[cache[cl0.name]].version]
    IN
    IF CacheHas(cl.name)
    THEN /\ calls' = [calls EXCEPT ![c] = ResolveWith(cl, "hit", cache[cl.name])]
         /\ mq' = Append(mq, c)
         /\ opens' = opens
    ELSE IF ~hasIDB
    THEN /\ calls' = [calls EXCEPT ![c] = ResolveAbsent(cl, "threw")]
         /\ mq' = Append(mq, c)
         /\ opens' = opens
    ELSE /\ calls' = [calls EXCEPT ![c] =
                        [cl EXCEPT !.res = "pending", !.pc = "resolving",
                                   !.nOpens = @ + 1]]
         /\ opens' = Append(opens, OpenRequest(c, "resolve", cl.name, NoVersion))
         /\ mq' = mq

\* ------------------------------------------------------- openDB (220-301)
\* The executor of openDB's promise: the two early rejections, then
\* window.indexedDB.open(name, version) inside try/catch (open throws a
\* TypeError for a version below 1).  routine is the upgrade handler passed.
OpenDBExec(c, cl0, version, routine, hooks) ==
    LET cl == [cl0 EXCEPT !.routine = routine, !.hooks = hooks] IN
    IF ~hasIDB
    THEN /\ calls' = [calls EXCEPT ![c] =
                        [Settle(cl, "rejected", "NO_INDEXED_DB") EXCEPT !.pc = "done"]]
         /\ opens' = opens
    ELSE IF cl.name = MissingName
    THEN /\ calls' = [calls EXCEPT ![c] =
                        [Settle(cl, "rejected", "Missing database name")
                            EXCEPT !.pc = "done"]]
         /\ opens' = opens
    ELSE IF version # NoVersion /\ version < 1
    THEN /\ calls' = [calls EXCEPT ![c] =
                        [Settle(cl, "rejected", "TypeError") EXCEPT !.pc = "done"]]
         /\ opens' = opens
    ELSE /\ calls' = [calls EXCEPT ![c] =
                        [cl EXCEPT !.pc = "opening", !.nOpens = @ + 1,
                                   !.openIssued = TRUE, !.openVersion = version,
                                   !.closedFirst = (cl.startCache = NoHandle
                                        \/ handles'[cl.startCache].closed)]]
         /\ opens' = Append(opens, OpenRequest(c, "open", cl.name, version))

\* A call can be made when the calls before it have been made; an awaited
\* call is made only when every earlier call has settled.
CanStart(c, awaited) ==
    /\ calls[c].op = "none"
    /\ \A b \in 1 .. (c - 1) : calls[b].op # "none"
    /\ awaited => \A b \in 1 .. (c - 1) : calls[b].promise # "pending"

\* The calls without a name are made with no other optional parameter:
\* none is read before the name is found missing.
PlainIfNameless(name, version, hooks, upgrade) ==
    name = MissingName => (version = NoVersion /\ ~hooks /\ ~upgrade)

\* openDB(params, handlers), called by the user.
OpenDB(c, awaited) ==
    /\ CanStart(c, awaited)
    /\ \E name \in NameArgs, version \in VersionArgs, hooks \in BOOLEAN, upgrade \in BOOLEAN :
          LET cl == [NoCallRecord EXCEPT !.op = "openDB", !.name = name,
                                         !.version = version, !.upgrade = upgrade,
                                         !.startCache = cache[name],
                                         !.pendingAtStart = Pending]
          IN /\ PlainIfNameless(name, version, hooks, upgrade)
             /\ handles' = handles
             /\ OpenDBExec(c, cl, version, IF upgrade THEN "user" ELSE "none", hooks)
    /\ UNCHANGED <<hasIDB, dbs, reqs, cache, mq>>

\* createStore (102-127), up to the await.
CreateStore(c, awaited) ==
    /\ CanStart(c, awaited)
    /\ \E name \in NameArgs, store \in Stores, version \in VersionArgs,
          hooks \in BOOLEAN, upgrade \in BOOLEAN :
          /\ PlainIfNameless(name, version, hooks, upgrade)
          /\ GetIDBDatabase(c, [NoCallRecord EXCEPT !.op = "createStore", !.name = name,
                                !.store = store, !.version = version,
                                !.hooks = hooks, !.upgrade = upgrade])
    /\ UNCHANGED <<hasIDB, dbs, handles, reqs, cache>>

\* createIndex (63-93), up to the await.
CreateIndex(c, awaited) ==
    /\ CanStart(c, awaited)
    /\ \E name \in NameArgs, store \in Stores, version \in VersionArgs,
          indexes \in IndexArgs :
          /\ PlainIfNameless(name, version, FALSE, FALSE)
          /\ GetIDBDatabase(c, [NoCallRecord EXCEPT !.op = "createIndex", !.name = name,
                                !.store = store, !.version = version,
                                !.indexes = indexes])
    /\ UNCHANGED <<hasIDB, dbs, handles, reqs, cache>>

\* deleteIndex (152-171), up to the await.
DeleteIndex(c, awaited) ==
    /\ CanStart(c, awaited)
    /\ \E name \in NameArgs, store \in Stores, version \in VersionArgs,
          indexName \in IndexNames :
          /\ PlainIfNameless(name, version, FALSE, FALSE)
          /\ GetIDBDatabase(c, [NoCallRecord EXCEPT !.op = "deleteIndex", !.name = name,
                                !.store = store, !.version = version,
                                !.indexes = <<indexName>>])
    /\ UNCHANGED <<hasIDB, dbs, handles, reqs, cache>>

\* What the public data methods are called with: add(params, value, key?),
\* put(params with key, data), get(params with key), delete(params, key),
\* clear(params).
KeyArgs(method) ==
    CASE method = "add" -> Keys \cup {NoKey}
      [] method = "clear" -> {NoKey}
      [] OTHER -> Keys

DocArgs(method) == IF method \in {"add", "put"} THEN DocIds ELSE {NoKey}

\* The methodArgs each public method builds, as the id field of the value
\* and the key argument handed to the store method.  add passes
\* [value, key] (41); put passes [{ ...data, [keyPath]: key }] with keyPath
\* 'id' (315-321); get and delete pass [key] (184, 141); clear passes null.
MethodArgs(method, key, docId) ==
    CASE method = "add" -> [id |-> docId, key |-> key]
      [] method = "put" -> [id |-> key, key |-> NoKey]
      [] method = "clear" -> [id |-> NoKey, key |-> NoKey]
      [] OTHER -> [id |-> NoKey, key |-> key]

\* objectStore[method](...args) throws DataError for a key that is not
\* valid, and, on a collection with key path 'id' (the one createStore
\* declares), when add or put is given a key argument or a value without a
\* valid id field.
MethodThrows(method, args) ==
    \/ args.key = BadKey
    \/ method \in {"add", "put"}
          /\ (args.key # NoKey \/ args.id = NoKey \/ args.id = BadKey)

\* reject(`No database ${name}`)
NoDatabase(name) == "No database " \o name

\* if (!db) return reject(...) (386-388).
DispatchAbsentPending(cl) == [cl EXCEPT !.pc = "done"]

DispatchAbsent(cl) ==
    [Settle(cl, "rejected", NoDatabase(cl.name)) EXCEPT !.pc = "done"]

\* if (db.objectStoreNames.contains(store)) { ... } without an else
\* (391-404): for a handle without the collection the executor returns
\* having called neither resolve nor reject.
SkipMissingStoreRejects(cl) ==
    [Settle(cl, "rejected", "NotFoundError") EXCEPT !.pc = "stuck"]

SkipMissingStore(cl) == [cl EXCEPT !.pc = "stuck"]

\* catch (error) { return reject(error) } (405-412).
CatchThrownSwallowed(cl, error) == [cl EXCEPT !.pc = "done", !.threw = error]

CatchThrown(cl, error) ==
    [Settle(cl, "rejected", error) EXCEPT !.pc = "done", !.threw = error]

\* add, clear, delete, get, put: #callObjectStoreMethod (376-414), up to
\* the await.
DataOp(c, awaited) ==
    /\ CanStart(c, awaited)
    /\ \E name \in DataNames, store \in Stores, method \in DataMethods :
       \E key \in KeyArgs(method), docId \in DocArgs(method) :
          GetIDBDatabase(c, [NoCallRecord EXCEPT !.op = "data", !.name = name,
                                !.store = store, !.method = method,
                                !.key = key, !.docId = docId])
    /\ UNCHANGED <<hasIDB, dbs, handles, reqs, cache>>

\* getDBVersion (201-204), up to the await.
GetDBVersion(c, awaited) ==
    /\ CanStart(c, awaited)
    /\ \E name \in DataNames :
          GetIDBDatabase(c, [NoCallRecord EXCEPT !.op = "getDBVersion", !.name = name])
    /\ UNCHANGED <<hasIDB, dbs, handles, reqs, cache>>

\* getAll (187-189), getAllKeys (191-193), getKey (206-208): each returns
\* `new Promise((resolve, reject) => {})`, an executor that calls neither.
EmptyExecutors == {"getAll", "getAllKeys", "getKey"}

EmptyExecutor(c, awaited) ==
    /\ CanStart(c, awaited)
    /\ \E method \in EmptyExecutors :
          calls' = [calls EXCEPT ![c] =
                       [NoCallRecord EXCEPT !.op = method, !.pc = "done"]]
    /\ UNCHANGED <<hasIDB, dbs, handles, opens, reqs, cache, mq>>

\* --------------------------------------------- continuations after an await
\* createStore, createIndex, deleteIndex after `await #getIDBDatabase`:
\* nextVersion, nextParams, db?.close(), then openDB(nextParams, handlers).
\* createStore spreads the caller's handlers over its own upgrade routine.
MutationRoutine(cl) ==
    IF cl.op = "createStore" /\ cl.upgrade THEN "user" ELSE cl.op

ContinueMutation(c) ==
    LET cl == [calls[c] EXCEPT !.dbVersion =
                  IF calls[c].db = NoHandle THEN 0 ELSE handles[calls[c].db].version]
        version == NextParamsVersion(cl.version, NextVersion(handles, cl.db))
    IN /\ cl.op \in {"createStore", "createIndex", "deleteIndex"}
       /\ handles' = CloseHandle(handles, cl.db)
       /\ OpenDBExec(c, cl, version, MutationRoutine(cl),
                     cl.op = "createStore" /\ cl.hooks)
       /\ UNCHANGED <<reqs>>

\* #callObjectStoreMethod after the await (385-413).  db.transaction throws
\* on a closed connection and on one whose upgrade transaction is running;
\* the store method may throw.  A handle without the collection starts
\* nothing.
ContinueData(c) ==
    LET cl == calls[c]
        args == MethodArgs(cl.method, cl.key, cl.docId)
    IN
    /\ cl.op = "data"
    /\ handles' = handles
    /\ opens' = opens
    /\ IF cl.db = NoHandle
       THEN /\ calls' = [calls EXCEPT ![c] = DispatchAbsent(cl)]
            /\ reqs' = reqs
       ELSE IF cl.store \notin handles[cl.db].stores
       THEN /\ calls' = [calls EXCEPT ![c] = SkipMissingStore(cl)]
            /\ reqs' = reqs
       ELSE IF handles[cl.db].closed \/ handles[cl.db].upgrading
       THEN /\ calls' = [calls EXCEPT ![c] =
                  CatchThrown([cl EXCEPT !.nTx = @ + 1], "InvalidStateError")]
            /\ reqs' = reqs
       ELSE LET inv == [cl EXCEPT !.nTx = @ + 1, !.invoked = TRUE,
                                  !.sentId = args.id, !.sentKey = args.key]
            IN IF MethodThrows(cl.method, args)
               THEN /\ calls' = [calls EXCEPT ![c] = CatchThrown(inv, "DataError")]
                    /\ reqs' = reqs
               ELSE /\ calls' = [calls EXCEPT ![c] = [inv EXCEPT !.pc = "requesting"]]
                    /\ reqs' = reqs \cup {[owner |-> c, handle |-> cl.db,
                                            store |-> cl.store, method |-> cl.method,
                                            id |-> args.id, key |-> args.key]}

\* getDBVersion after the await: return db?.version.
ContinueGetDBVersion(c) ==
    LET cl == calls[c] IN
    /\ cl.op = "getDBVersion"
    /\ calls' = [calls EXCEPT ![c] =
          [Settle(cl, "resolved", "version") EXCEPT !.pc = "done",
              !.result = IF cl.db = NoHandle THEN NoVersion
                         ELSE handles[cl.db].version]]
    /\ UNCHANGED <<handles, opens, reqs>>

\* The microtask queue resumes the calls in the order their awaits resolved.
Continue(c) ==
    /\ mq # <<>>
    /\ Head(mq) = c
    /\ mq' = Tail(mq)
    /\ \/ ContinueMutation(c)
       \/ ContinueData(c)
       \/ ContinueGetDBVersion(c)
    /\ UNCHANGED <<hasIDB, dbs, cache>>

\* ------------------------------------------------ handlers of open requests
\* onsuccess(db) of the handler bag, when supplied.
HookSuccessSkipped(cl, h) == cl

HookSuccess(cl, h) ==
    IF cl.hooks THEN [cl EXCEPT !.nOnsuccess = @ + 1, !.onsuccessArg = h] ELSE cl

\* The success handlers: openDB's `success` (254-263) and
\* #getIDBDatabase's onsuccess (355-360).  hs is the connection table with
\* the delivered connection h in it.
OnOpenSuccess(i, h) ==
    LET r == opens[i]
        c == r.owner
    IN /\ opens' = RemoveAt(opens, i)
       /\ cache' = SetIDBDatabase(cache, r.name, h)
       /\ IF r.phase = "resolve"
          THEN /\ calls' = [calls EXCEPT ![c] =
                     ResolveWith([@ EXCEPT !.nCacheSets = @ + 1], "opened", h)]
               /\ mq' = Append(mq, c)
          ELSE /\ calls' = [calls EXCEPT ![c] =
                     [Settle(HookSuccess(@, h), "resolved", "this")
                         EXCEPT !.pc = "done", !.delivered = h, !.nCacheSets = @ + 1,
                                !.gotSuccess = TRUE, !.cacheAtSuccess = cache'[r.name],
                                !.endVersion = handles'[cache'[r.name]].version]]
               /\ mq' = mq

\* The error handlers: openDB's `error` (265-268) and #getIDBDatabase's
\* onerror (350-352).
OnOpenError(i) ==
    LET r == opens[i]
        c == r.owner
    IN /\ opens' = RemoveAt(opens, i)
       /\ cache' = cache
       /\ IF r.phase = "resolve"
          THEN /\ calls' = [calls EXCEPT ![c] = ResolveAbsent(@, "error")]
               /\ mq' = Append(mq, c)
          ELSE /\ calls' = [calls EXCEPT ![c] =
                     [Settle(@, "rejected", "OpenErrorEvent")
                         EXCEPT !.pc = "done", !.gotError = TRUE]]
               /\ mq' = mq

\* -------------------------------------------------- the platform: opening
\* Events are tasks: one is delivered only when no microtask is waiting.
\* The open fails: the stored version is above the requested one
\* (VersionError), or the environment fails the request.
PlatformOpenError(i) ==
    /\ mq = <<>>
    /\ i \in 1 .. Len(opens)
    /\ opens[i].state = "queued"
    /\ IsFront(i)
    /\ OnOpenError(i)
    /\ UNCHANGED <<hasIDB, dbs, handles, reqs>>

\* The stored version is the requested one: a connection, then success.
PlatformOpenSuccess(i) ==
    /\ mq = <<>>
    /\ i \in 1 .. Len(opens)
    /\ opens[i].state = "queued"
    /\ IsFront(i)
    /\ WantedVersion(opens[i]) = dbs[opens[i].name].version
    /\ handles' = Append(handles,
           [NewHandle(opens[i].name, dbs[opens[i].name].version,
                      dbs[opens[i].name].stores) EXCEPT !.succeeded = TRUE])
    /\ OnOpenSuccess(i, Len(handles) + 1)
    /\ UNCHANGED <<hasIDB, dbs, reqs>>

\* idbOpenRequest.onblocked (273-277): attached only when the caller
\* supplied `blocked`, and all it does is call that hook.
OnBlockedRejects(cl) == Settle(cl, "rejected", "BlockedEvent")

OnBlocked(cl) ==
    IF cl.hooks THEN [cl EXCEPT !.nBlocked = @ + 1] ELSE cl

\* An upgrade is needed and another connection of the name is still open:
\* the request gets `blocked`.  #getIDBDatabase attaches no handler for it.
PlatformBlocked(i) ==
    /\ mq = <<>>
    /\ i \in 1 .. Len(opens)
    /\ opens[i].state = "queued"
    /\ IsFront(i)
    /\ WantedVersion(opens[i]) > dbs[opens[i].name].version
    /\ OtherLive(opens[i].name, NoHandle) # {}
    /\ opens' = [opens EXCEPT ![i].state = "blocked"]
    /\ calls' = [calls EXCEPT ![opens[i].owner] =
                    IF opens[i].phase = "open" THEN OnBlocked(@) ELSE @]
    /\ UNCHANGED <<hasIDB, dbs, handles, reqs, cache, mq>>

\* --------------------------------------------------- the upgrade routines
\* objectStore.createIndex for each index spec in turn (81-89); creating an
\* index that exists throws.  The result is the schema, or "throws".
RECURSIVE CreateIndexes(_, _, _, _)
CreateIndexes(d, store, indexes, k) ==
    IF k > Len(indexes) THEN [db |-> d, fate |-> "commit"]
    ELSE IF <<store, indexes[k]>> \in d.indexes THEN [db |-> d, fate |-> "abort"]
    ELSE CreateIndexes([d EXCEPT !.indexes = @ \cup {<<store, indexes[k]>>}],
                       store, indexes, k + 1)

\* createStore's upgrade (112-121): the guard on objectStoreNames.contains.
CreateStoreUpgradeUnguarded(d, store) ==
    IF store \in d.stores THEN [db |-> d, fate |-> "abort"]
    ELSE [db |-> [d EXCEPT !.stores = @ \cup {store}], fate |-> "commit"]

CreateStoreUpgrade(d, store) ==
    IF store \in d.stores THEN [db |-> d, fate |-> "commit"]
    ELSE [db |-> [d EXCEPT !.stores = @ \cup {store}], fate |-> "commit"]

\* createIndex's upgrade (74-90): transaction.objectStore(store) throws for
\* a collection that does not exist.
CreateIndexUpgrade(d, store, indexes) ==
    IF store \notin d.stores THEN [db |-> d, fate |-> "abort"]
    ELSE CreateIndexes(d, store, indexes, 1)

\* deleteIndex's upgrade (163-168): objectStore.deleteIndex throws for an
\* index that does not exist.
DeleteIndexUpgrade(d, store, indexName) ==
    IF store \notin d.stores \/ <<store, indexName>> \notin d.indexes
    THEN [db |-> d, fate |-> "abort"]
    ELSE [db |-> [d EXCEPT !.indexes = @ \ {<<store, indexName>>}], fate |-> "commit"]

\* What running the routine inside the upgrade transaction can come to.  A
\* routine that throws aborts the transaction.  A routine of the user may
\* also issue a request that fails: its error event reaches the handle,
\* and the transaction then aborts, or commits when the user prevented the
\* default.
UpgradeOutcomes(cl, d) ==
    CASE cl.routine = "createStore" -> {CreateStoreUpgrade(d, cl.store)}
      [] cl.routine = "createIndex" -> {CreateIndexUpgrade(d, cl.store, cl.indexes)}
      [] cl.routine = "deleteIndex" -> {DeleteIndexUpgrade(d, cl.store, cl.indexes[1])}
      [] cl.routine = "user" ->
            {[db |-> d, fate |-> f] : f \in {"commit", "abort", "errCommit", "errAbort"}}
      [] OTHER -> {[db |-> d, fate |-> "commit"]}

\* `if (upgrade) upgrade(event)` (289), the last statement of openDB's
\* upgradeneeded handler: the routine is handed the event, whose result is
\* the connection h, and finds `cached` in the map under the name.
CallUpgradeResolves(cl, cached, h) ==
    Settle([cl EXCEPT !.gotUpgrade = TRUE, !.upgradeArg = h], "resolved", "this")

CallUpgradeTwice(cl, cached, h) ==
    IF cl.routine = "none"
    THEN [cl EXCEPT !.gotUpgrade = TRUE, !.upgradeArg = h]
    ELSE [cl EXCEPT !.gotUpgrade = TRUE, !.upgradeArg = h,
                    !.nUpgrade = @ + 2, !.cacheAtUpgrade = cached]

CallUpgrade(cl, cached, h) ==
    IF cl.routine = "none"
    THEN [cl EXCEPT !.gotUpgrade = TRUE, !.upgradeArg = h]
    ELSE [cl EXCEPT !.gotUpgrade = TRUE, !.upgradeArg = h,
                    !.nUpgrade = @ + 1, !.cacheAtUpgrade = cached]

\* db.onerror registered by the upgradeneeded handler (283-285): reject.
OnHandleErrorIgnored(cl) == [cl EXCEPT !.gotHandleError = TRUE]

OnHandleError(cl) ==
    [Settle(cl, "rejected", "HandleErrorEvent") EXCEPT !.gotHandleError = TRUE]

\* The platform aborts an upgrade transaction in the task in which the
\* handler threw or the failed request's error event was dispatched: the
\* connection goes back to the version and the collections of before.
AbortUpgrade(hs, h, old) ==
    [hs EXCEPT ![h] = [@ EXCEPT !.version = old.version, !.stores = old.stores]]

\* The upgrade transaction starts once no other connection of the name is
\* open: the stored version moves to the requested one and upgradeneeded is
\* delivered.  openDB's handler (279-290) registers db.onerror, puts the
\* connection in the map and calls the routine; #getIDBDatabase has no
\* handler for the event.
PlatformUpgradeNeeded(i) ==
    /\ mq = <<>>
    /\ i \in 1 .. Len(opens)
    /\ opens[i].state \in {"queued", "blocked"}
    /\ IsFront(i)
    /\ WantedVersion(opens[i]) > dbs[opens[i].name].version
    /\ OtherLive(opens[i].name, NoHandle) = {}
    /\ LET r == opens[i]
           c == r.owner
           h == Len(handles) + 1
           d == [dbs[r.name] EXCEPT !.version = WantedVersion(r)]
       IN IF r.phase = "resolve"
          THEN /\ dbs' = [dbs EXCEPT ![r.name] = d]
               /\ handles' = Append(handles,
                      [NewHandle(r.name, d.version, d.stores) EXCEPT !.upgrading = TRUE])
               /\ opens' = [opens EXCEPT ![i] =
                      [@ EXCEPT !.state = "upgrading", !.handle = h,
                                !.fate = "commit", !.old = dbs[r.name]]]
               /\ UNCHANGED <<cache, calls>>
          ELSE \E out \in UpgradeOutcomes(calls[c], d) :
               /\ dbs' = [dbs EXCEPT ![r.name] =
                      IF out.fate = "abort" THEN dbs[r.name] ELSE out.db]
               /\ handles' =
                      LET hs == Append(handles,
                                  [NewHandle(r.name, d.version, out.db.stores)
                                      EXCEPT !.upgrading = TRUE, !.onerror = c])
                      IN IF out.fate = "abort"
                         THEN AbortUpgrade(hs, h, dbs[r.name]) ELSE hs
               /\ cache' = SetIDBDatabase(cache, r.name, h)
               /\ calls' = [calls EXCEPT ![c] =
                      CallUpgrade([@ EXCEPT !.nCacheSets = @ + 1], cache'[r.name], h)]
               /\ opens' = [opens EXCEPT ![i] =
                      [@ EXCEPT !.state = "upgrading", !.handle = h,
                                !.fate = out.fate, !.old = dbs[r.name]]]
    /\ UNCHANGED <<hasIDB, reqs, mq>>

\* An error event of a request made in the upgrade bubbles to the handle:
\* db.onerror (283-285) rejects the openDB promise.  Unless the routine
\* prevented the default, the platform aborts the upgrade in the same task.
PlatformHandleError(i) ==
    /\ mq = <<>>
    /\ i \in 1 .. Len(opens)
    /\ opens[i].state = "upgrading"
    /\ opens[i].fate \in {"errCommit", "errAbort"}
    /\ calls' = [calls EXCEPT ![opens[i].owner] = OnHandleError(@)]
    /\ opens' = [opens EXCEPT ![i].fate =
                    IF @ = "errCommit" THEN "commit" ELSE "abort"]
    /\ IF opens[i].fate = "errAbort"
       THEN /\ dbs' = [dbs EXCEPT ![opens[i].name] = opens[i].old]
            /\ handles' = AbortUpgrade(handles, opens[i].handle, opens[i].old)
       ELSE UNCHANGED <<dbs, handles>>
    /\ UNCHANGED <<hasIDB, reqs, cache, mq>>

\* The upgrade transaction commits: success on the open request.
PlatformUpgradeSuccess(i) ==
    /\ mq = <<>>
    /\ i \in 1 .. Len(opens)
    /\ opens[i].state = "upgrading"
    /\ opens[i].fate = "commit"
    /\ ~handles[opens[i].handle].closed
    /\ handles' = [handles EXCEPT ![opens[i].handle] =
                       [@ EXCEPT !.upgrading = FALSE, !.succeeded = TRUE]]
    /\ OnOpenSuccess(i, opens[i].handle)
    /\ UNCHANGED <<hasIDB, dbs, reqs>>

\* The upgrade transaction has aborted (database and connection are back
\* at the schema and version before it): the connection is closed and the
\* open request gets error.  A connection closed during a committed upgrade
\* gets error as well, with the upgrade kept.
PlatformUpgradeError(i) ==
    /\ mq = <<>>
    /\ i \in 1 .. Len(opens)
    /\ opens[i].state = "upgrading"
    /\ LET r == opens[i] IN
       \/ /\ r.fate = "abort"
          /\ dbs' = dbs
          /\ handles' = [handles EXCEPT ![r.handle] =
                 [@ EXCEPT !.closed = TRUE, !.upgrading = FALSE]]
       \/ /\ r.fate = "commit"
          /\ handles[r.handle].closed
          /\ dbs' = dbs
          /\ handles' = [handles EXCEPT ![r.handle].upgrading = FALSE]
    /\ OnOpenError(i)
    /\ UNCHANGED <<hasIDB, reqs>>

\* ------------------------------------------- the platform: data requests
\* The result of a request that succeeds on database d: get finds the value
\* stored under the key (a value is told by its id field) or undefined;
\* add and put give the key stored.
RequestResult(d, q) ==
    CASE q.method = "get" ->
            IF <<q.store, q.key>> \in d.records THEN q.key ELSE NoKey
      [] q.method \in {"add", "put"} -> q.id
      [] OTHER -> NoKey

\* What the request does to the records of database d.
ApplyRequest(d, q) ==
    CASE q.method \in {"add", "put"} ->
            [d EXCEPT !.records = @ \cup {<<q.store, q.id>>}]
      [] q.method = "delete" -> [d EXCEPT !.records = @ \ {<<q.store, q.key>>}]
      [] q.method = "clear" ->
            [d EXCEPT !.records = {x \in @ : x[1] # q.store}]
      [] OTHER -> d

\* request.onsuccess (397-399): resolve(this).  The request's result is in
\* the event and the handler does not read it.
OnRequestSuccess(cl, result) ==
    [Settle(cl, "resolved", "this")
        EXCEPT !.pc = "done", !.gotReqSuccess = TRUE, !.reqResult = result]

\* request.onerror (401-403): reject(ev).
OnRequestError(cl) ==
    [Settle(cl, "rejected", "RequestErrorEvent")
        EXCEPT !.pc = "done", !.gotReqError = TRUE]

\* The request succeeds; add fails instead when the key is stored already.
PlatformRequestSuccess(q) ==
    /\ mq = <<>>
    /\ q \in reqs
    /\ q.method = "add" => <<q.store, q.id>> \notin dbs[handles[q.handle].name].records
    /\ reqs' = reqs \ {q}
    /\ dbs' = [dbs EXCEPT ![handles[q.handle].name] = ApplyRequest(@, q)]
    /\ calls' = [calls EXCEPT ![q.owner] =
                    OnRequestSuccess(@, RequestResult(dbs[handles[q.handle].name], q))]
    /\ UNCHANGED <<hasIDB, handles, opens, cache, mq>>

\* The request fails and its transaction aborts.  The error event then
\* bubbles to the connection, whose onerror (when openDB registered one,
\* 283-285) calls the reject of the openDB call that opened it.
PlatformRequestError(q) ==
    /\ mq = <<>>
    /\ q \in reqs
    /\ reqs' = reqs \ {q}
    /\ LET own == [calls EXCEPT ![q.owner] = OnRequestError(@)]
           o == handles[q.handle].onerror
       IN calls' = IF o = NoCall THEN own
                   ELSE [own EXCEPT ![o] = Settle(@, "rejected", "RequestErrorEvent")]
    /\ UNCHANGED <<hasIDB, dbs, handles, opens, cache, mq>>

\* ------------------------------------------------------ the specifications
Start(c, awaited) ==
    \/ OpenDB(c, awaited)
    \/ CreateStore(c, awaited)
    \/ CreateIndex(c, awaited)
    \/ DeleteIndex(c, awaited)
    \/ DataOp(c, awaited)
    \/ GetDBVersion(c, awaited)
    \/ EmptyExecutor(c, awaited)

Platform ==
    \/ \E i \in 1 .. MaxCalls :
          \/ PlatformOpenError(i)
          \/ PlatformOpenSuccess(i)
          \/ PlatformBlocked(i)
          \/ PlatformUpgradeNeeded(i)
          \/ PlatformHandleError(i)
          \/ PlatformUpgradeSuccess(i)
          \/ PlatformUpgradeError(i)
    \/ \E q \in reqs : PlatformRequestSuccess(q)
    \/ \E q \in reqs : PlatformRequestError(q)

\* Calls made at any time, also while earlier ones are pending.
Next ==
    \/ \E c \in CallIds : Start(c, FALSE)
    \/ \E c \in CallIds : Continue(c)
    \/ Platform

Spec == Init /\ [][Next]_vars

\* Every call awaited before the next one is made.
NextSeq ==
    \/ \E c \in CallIds : Start(c, TRUE)
    \/ \E c \in CallIds : Continue(c)
    \/ Platform

SeqSpec == Init /\ [][NextSeq]_vars

\* The program with a scheduler that runs every queued continuation and a
\* platform that delivers an event to every request in flight.
FairSpec ==
    /\ Init /\ [][Next]_vars
    /\ WF_vars(\E c \in CallIds : Continue(c))
    /\ WF_vars(Platform)

\* ===================================== the standalone createObjectStore
\* src/object-store/create.ts: one promise around one open request, with
\* handlers for upgradeneeded and error only.  It keeps no map; the caller
\* holds the connection the promise resolved with.
StandaloneStores == {"s1", "s2"}

\* db.onerror (32-37) and indexedDB.onerror (48-52): the caller's onerror,
\* when supplied, then reject(error).
StandaloneOnError(cl, value) ==
    Settle(IF cl.hooks THEN [cl EXCEPT !.nOnerror = @ + 1] ELSE cl,
           "rejected", value)

\* if (!db.objectStoreNames.contains(store)) db.createObjectStore(store,
\* { keyPath }) (39-40), on database d inside the upgrade transaction.
StandaloneCreateSkipped(d, store) == d

StandaloneCreate(d, store) ==
    IF store \in d.stores THEN d ELSE [d EXCEPT !.stores = @ \cup {store}]

\* if (onsuccess) onsuccess(db) (42), inside the same if: called only when
\* the collection was made.
StandaloneHook(cl, d, h) ==
    IF cl.hooks /\ cl.store \notin d.stores
    THEN [cl EXCEPT !.nOnsuccess = @ + 1, !.onsuccessArg = h]
    ELSE cl

\* createObjectStore(params, requestOptions): the executor (18-26).  The
\* capability check rejects without returning, so window.indexedDB.open is
\* still reached and throws; open throws TypeError for a version below 1.
CreateObjectStore(c, awaited) ==
    /\ CanStart(c, awaited)
    /\ \E name \in DataNames, store \in StandaloneStores,
          version \in VersionArgs, hooks \in BOOLEAN :
          LET cl == [NoCallRecord EXCEPT !.op = "createObjectStore",
                        !.name = name, !.store = store, !.version = version,
                        !.hooks = hooks, !.startVersion = dbs[name].version,
                        !.startQuiet = (opens = <<>>),
                        !.pendingAtStart = Pending]
          IN IF ~hasIDB
             THEN /\ calls' = [calls EXCEPT ![c] =
                        [Settle(Settle(cl, "rejected", "NO_INDEXED_DB"),
                                "rejected", "TypeError")
                            EXCEPT !.pc = "done", !.threw = "TypeError"]]
                  /\ opens' = opens
             ELSE IF version # NoVersion /\ version < 1
             THEN /\ calls' = [calls EXCEPT ![c] =
                        [Settle(cl, "rejected", "TypeError")
                            EXCEPT !.pc = "done", !.threw = "TypeError"]]
                  /\ opens' = opens
             ELSE /\ calls' = [calls EXCEPT ![c] =
                        [cl EXCEPT !.pc = "opening", !.nOpens = @ + 1,
                                   !.openIssued = TRUE, !.openVersion = version]]
                  /\ opens' = Append(opens,
                                OpenRequest(c, "standalone", name, version))
    /\ UNCHANGED <<hasIDB, dbs, handles, reqs, cache, mq>>

\* upgradeneeded (28-46): registers db.onerror, makes the collection when
\* the connection does not have it, calls the onsuccess hook in that case,
\* and resolves with the connection, inside the upgrade transaction.
StandaloneUpgradeNeeded(i) ==
    /\ i \in 1 .. Len(opens)
    /\ opens[i].phase = "standalone"
    /\ opens[i].state \in {"queued", "blocked"}
    /\ IsFront(i)
    /\ WantedVersion(opens[i]) > dbs[opens[i].name].version
    /\ OtherLive(opens[i].name, NoHandle) = {}
    /\ LET r == opens[i]
           c == r.owner
           h == Len(handles) + 1
           old == dbs[r.name]
           d0 == [old EXCEPT !.version = WantedVersion(r)]
           d == StandaloneCreate(d0, calls[c].store)
       IN /\ dbs' = [dbs EXCEPT ![r.name] = d]
          /\ handles' = Append(handles,
                 [NewHandle(r.name, d.version, d.stores)
                     EXCEPT !.upgrading = TRUE, !.onerror = c])
          /\ calls' = [calls EXCEPT ![c] =
                 [Settle(StandaloneHook([@ EXCEPT !.gotUpgrade = TRUE,
                                                  !.upgradeArg = h], d0, h),
                         "resolved", "IDBDatabase")
                     EXCEPT !.delivered = h, !.pc = "done"]]
          /\ opens' = [opens EXCEPT ![i] =
                 [@ EXCEPT !.state = "upgrading", !.handle = h,
                           !.fate = "commit", !.old = old]]
    /\ UNCHANGED <<hasIDB, reqs, cache, mq>>

\* The request asks for a version above the stored one while another
\* connection of the name is open: blocked, for which the request has no
\* handler.
StandaloneBlocked(i) ==
    /\ i \in 1 .. Len(opens)
    /\ opens[i].phase = "standalone"
    /\ opens[i].state = "queued"
    /\ IsFront(i)
    /\ WantedVersion(opens[i]) > dbs[opens[i].name].version
    /\ OtherLive(opens[i].name, NoHandle) # {}
    /\ opens' = [opens EXCEPT ![i].state = "blocked"]
    /\ UNCHANGED <<hasIDB, dbs, handles, reqs, cache, calls, mq>>

\* The stored version is the requested one: the platform makes a
\* connection and delivers success, for which the request has no handler
\* (26-52).  Nothing holds the connection and the promise is left as it is.
StandaloneOpenSuccess(i) ==
    /\ i \in 1 .. Len(opens)
    /\ opens[i].phase = "standalone"
    /\ opens[i].state = "queued"
    /\ IsFront(i)
    /\ WantedVersion(opens[i]) = dbs[opens[i].name].version
    /\ handles' = Append(handles,
           [NewHandle(opens[i].name, dbs[opens[i].name].version,
                      dbs[opens[i].name].stores) EXCEPT !.succeeded = TRUE])
    /\ opens' = RemoveAt(opens, i)
    /\ UNCHANGED <<hasIDB, dbs, reqs, cache, calls, mq>>

\* The upgrade transaction commits: success on the request, again without
\* a handler.
StandaloneUpgradeSuccess(i) ==
    /\ i \in 1 .. Len(opens)
    /\ opens[i].phase = "standalone"
    /\ opens[i].state = "upgrading"
    /\ ~handles[opens[i].handle].closed
    /\ handles' = [handles EXCEPT ![opens[i].handle] =
                       [@ EXCEPT !.upgrading = FALSE, !.succeeded = TRUE]]
    /\ opens' = RemoveAt(opens, i)
    /\ UNCHANGED <<hasIDB, dbs, reqs, cache, calls, mq>>

\* indexedDB.onerror (48-52), for a request the platform fails: the stored
\* version is above the requested one, or the environment fails the open.
StandaloneOpenError(i) ==
    /\ i \in 1 .. Len(opens)
    /\ opens[i].phase = "standalone"
    /\ opens[i].state = "queued"
    /\ IsFront(i)
    /\ calls' = [calls EXCEPT ![opens[i].owner] =
           [StandaloneOnError(@, "OpenErrorEvent")
               EXCEPT !.pc = "done", !.gotError = TRUE]]
    /\ opens' = RemoveAt(opens, i)
    /\ UNCHANGED <<hasIDB, dbs, handles, reqs, cache, mq>>

\* indexedDB.onerror (48-52), for a connection the caller closed while its
\* upgrade transaction was running: the upgrade is kept and the request
\* gets error.
StandaloneUpgradeError(i) ==
    /\ i \in 1 .. Len(opens)
    /\ opens[i].phase = "standalone"
    /\ opens[i].state = "upgrading"
    /\ handles[opens[i].handle].closed
    /\ handles' = [handles EXCEPT ![opens[i].handle].upgrading = FALSE]
    /\ calls' = [calls EXCEPT ![opens[i].owner] =
           [StandaloneOnError(@, "OpenErrorEvent") EXCEPT !.gotError = TRUE]]
    /\ opens' = RemoveAt(opens, i)
    /\ UNCHANGED <<hasIDB, dbs, reqs, cache, mq>>

\* db.onerror (32-37) stays on the connection the caller was given: the
\* error event of a request the caller makes on it later bubbles there.
StandaloneHandleError(h) ==
    /\ h \in 1 .. Len(handles)
    /\ handles[h].onerror # NoCall
    /\ ~handles[h].closed
    /\ ~handles[h].upgrading
    /\ ~calls[handles[h].onerror].gotHandleError
    /\ calls' = [calls EXCEPT ![handles[h].onerror] =
           [StandaloneOnError(@, "HandleErrorEvent")
               EXCEPT !.gotHandleError = TRUE]]
    /\ UNCHANGED <<hasIDB, dbs, handles, opens, reqs, cache, mq>>

\* The caller closes the connection its promise resolved with.
CloseByCaller(h) ==
    /\ h \in 1 .. Len(handles)
    /\ \E c \in CallIds :
          calls[c].promise = "resolved" /\ calls[c].delivered = h
    /\ ~handles[h].closed
    /\ handles' = CloseHandle(handles, h)
    /\ UNCHANGED <<hasIDB, dbs, opens, reqs, cache, calls, mq>>

\* ------------------------------------------ the standalone putToObjectStore
\* One promise around one open request with handlers for success and error,
\* and a put request made in the success handler.
\* The ids a caller passes in params: none, or a valid key.
PutIds == {NoKey, "k1"}

\* objectStore.put({ id, ...data }) (36-39): an id field of data replaces
\* params.id.
PutSentId(id, docId) == IF docId # NoKey THEN docId ELSE id

\* What the try block of the success handler (31-45) throws on a connection
\* with the collections `stores`: db.transaction throws NotFoundError for a
\* collection that does not exist, put throws DataError for a value whose
\* id is no valid key.
PutThrows(stores, store, sent) ==
    IF store \notin stores THEN "NotFoundError"
    ELSE IF sent \in {NoKey, BadKey} THEN "DataError"
    ELSE "none"

\* catch (46-50) and indexedDB.onerror (53-57): the caller's onerror, when
\* supplied, then reject(error).
PutOnError(cl, value) ==
    Settle(IF cl.hooks THEN [cl EXCEPT !.nOnerror = @ + 1] ELSE cl,
           "rejected", value)

\* request.onsuccess (41-45): the caller's onsuccess, when supplied, then
\* resolve(db).
PutOnRequestSuccess(cl, h) ==
    [Settle(IF cl.hooks THEN [cl EXCEPT !.nOnsuccess = @ + 1] ELSE cl,
            "resolved", "IDBDatabase")
        EXCEPT !.pc = "done", !.gotReqSuccess = TRUE, !.delivered = h]

\* putToObjectStore(params, data, requestOptions): the executor (20-28),
\* with the same capability check without return as createObjectStore.
PutToObjectStore(c, awaited) ==
    /\ CanStart(c, awaited)
    /\ \E name \in DataNames, store \in StandaloneStores,
          version \in VersionArgs, id \in PutIds, docId \in DocIds,
          hooks \in BOOLEAN :
          LET cl == [NoCallRecord EXCEPT !.op = "putToObjectStore",
                        !.name = name, !.store = store, !.version = version,
                        !.key = id, !.docId = docId, !.method = "put",
                        !.hooks = hooks, !.startVersion = dbs[name].version,
                        !.startQuiet = (opens = <<>>),
                        !.pendingAtStart = Pending]
          IN IF ~hasIDB
             THEN /\ calls' = [calls EXCEPT ![c] =
                        [Settle(Settle(cl, "rejected", "NO_INDEXED_DB"),
                                "rejected", "TypeError")
                            EXCEPT !.pc = "done", !.threw = "TypeError"]]
                  /\ opens' = opens
             ELSE IF version # NoVersion /\ version < 1
             THEN /\ calls' = [calls EXCEPT ![c] =
                        [Settle(cl, "rejected", "TypeError")
                            EXCEPT !.pc = "done", !.threw = "TypeError"]]
                  /\ opens' = opens
             ELSE /\ calls' = [calls EXCEPT ![c] =
                        [cl EXCEPT !.pc = "opening", !.nOpens = @ + 1,
                                   !.openIssued = TRUE, !.openVersion = version]]
                  /\ opens' = Append(opens, OpenRequest(c, "put", name, version))
    /\ UNCHANGED <<hasIDB, dbs, handles, reqs, cache, mq>>

\* indexedDB.onsuccess (30-51) of call c, delivered connection h with the
\* collections `stores`: a readwrite transaction and a put request, or the
\* catch.
PutOnOpenSuccess(c, h, stores) ==
    LET cl == calls[c]
        sent == PutSentId(cl.key, cl.docId)
        thrown == PutThrows(stores, cl.store, sent)
        tried == [cl EXCEPT !.gotSuccess = TRUE, !.nTx = @ + 1,
                            !.invoked = (thrown # "NotFoundError"),
                            !.sentId = IF thrown = "NotFoundError" THEN NoKey
                                       ELSE sent]
    IN IF thrown # "none"
       THEN /\ calls' = [calls EXCEPT ![c] =
                  [PutOnError(tried, thrown)
                      EXCEPT !.pc = "done", !.threw = thrown]]
            /\ reqs' = reqs
       ELSE /\ calls' = [calls EXCEPT ![c] = [tried EXCEPT !.pc = "requesting"]]
            /\ reqs' = reqs \cup {[owner |-> c, handle |-> h,
                                    store |-> cl.store, method |-> "put",
                                    id |-> sent, key |-> NoKey]}

\* The request asks for a version above the stored one: the platform runs
\* an upgrade transaction, for whose upgradeneeded event the request has no
\* handler, so the version is raised (and a database that does not exist
\* is made) with the collections left as they are.
PutUpgradeNeeded(i) ==
    /\ i \in 1 .. Len(opens)
    /\ opens[i].phase = "put"
    /\ opens[i].state \in {"queued", "blocked"}
    /\ IsFront(i)
    /\ WantedVersion(opens[i]) > dbs[opens[i].name].version
    /\ OtherLive(opens[i].name, NoHandle) = {}
    /\ LET r == opens[i]
           h == Len(handles) + 1
           d == [dbs[r.name] EXCEPT !.version = WantedVersion(r)]
       IN /\ dbs' = [dbs EXCEPT ![r.name] = d]
          /\ handles' = Append(handles,
                 [NewHandle(r.name, d.version, d.stores) EXCEPT !.upgrading = TRUE])
          /\ opens' = [opens EXCEPT ![i] =
                 [@ EXCEPT !.state = "upgrading", !.handle = h,
                           !.fate = "commit", !.old = dbs[r.name]]]
    /\ UNCHANGED <<hasIDB, reqs, cache, calls, mq>>

\* Blocked by another open connection of the name: no handler.
PutBlocked(i) ==
    /\ i \in 1 .. Len(opens)
    /\ opens[i].phase = "put"
    /\ opens[i].state = "queued"
    /\ IsFront(i)
    /\ WantedVersion(opens[i]) > dbs[opens[i].name].version
    /\ OtherLive(opens[i].name, NoHandle) # {}
    /\ opens' = [opens EXCEPT ![i].state = "blocked"]
    /\ UNCHANGED <<hasIDB, dbs, handles, reqs, cache, calls, mq>>

\* Success at the stored version.
PutOpenSuccess(i) ==
    /\ i \in 1 .. Len(opens)
    /\ opens[i].phase = "put"
    /\ opens[i].state = "queued"
    /\ IsFront(i)
    /\ WantedVersion(opens[i]) = dbs[opens[i].name].version
    /\ handles' = Append(handles,
           [NewHandle(opens[i].name, dbs[opens[i].name].version,
                      dbs[opens[i].name].stores) EXCEPT !.succeeded = TRUE])
    /\ opens' = RemoveAt(opens, i)
    /\ PutOnOpenSuccess(opens[i].owner, Len(handles) + 1,
                        dbs[opens[i].name].stores)
    /\ UNCHANGED <<hasIDB, dbs, cache, mq>>

\* Success after the upgrade transaction committed.
PutUpgradeSuccess(i) ==
    /\ i \in 1 .. Len(opens)
    /\ opens[i].phase = "put"
    /\ opens[i].state = "upgrading"
    /\ handles' = [handles EXCEPT ![opens[i].handle] =
                       [@ EXCEPT !.upgrading = FALSE, !.succeeded = TRUE]]
    /\ opens' = RemoveAt(opens, i)
    /\ PutOnOpenSuccess(opens[i].owner, opens[i].handle,
                        handles[opens[i].handle].stores)
    /\ UNCHANGED <<hasIDB, dbs, cache, mq>>

\* indexedDB.onerror (53-57): the stored version is above the requested
\* one, or the environment fails the open.
PutOpenError(i) ==
    /\ i \in 1 .. Len(opens)
    /\ opens[i].phase = "put"
    /\ opens[i].state = "queued"
    /\ IsFront(i)
    /\ calls' = [calls EXCEPT ![opens[i].owner] =
           [PutOnError(@, "OpenErrorEvent") EXCEPT !.pc = "done", !.gotError = TRUE]]
    /\ opens' = RemoveAt(opens, i)
    /\ UNCHANGED <<hasIDB, dbs, handles, reqs, cache, mq>>

\* The put request succeeds: the record is stored under its id and
\* request.onsuccess (41-45) runs.
PutRequestSuccess(q) ==
    /\ q \in reqs
    /\ calls[q.owner].op = "putToObjectStore"
    /\ reqs' = reqs \ {q}
    /\ dbs' = [dbs EXCEPT ![handles[q.handle].name] = ApplyRequest(@, q)]
    /\ calls' = [calls EXCEPT ![q.owner] = PutOnRequestSuccess(@, q.handle)]
    /\ UNCHANGED <<hasIDB, handles, opens, cache, mq>>

\* The put request fails and its transaction aborts: neither the request
\* nor the transaction nor the connection has an error handler.
PutRequestError(q) ==
    /\ q \in reqs
    /\ calls[q.owner].op = "putToObjectStore"
    /\ reqs' = reqs \ {q}
    /\ UNCHANGED <<hasIDB, dbs, handles, opens, cache, calls, mq>>

\* ----------------------------------------- the standalone getFromObjectStore
\* new Promise((resolve, reject) => {}): nothing is opened and the promise
\* is never settled.
GetFromObjectStore(c, awaited) ==
    /\ CanStart(c, awaited)
    /\ \E name \in DataNames, store \in StandaloneStores :
          calls' = [calls EXCEPT ![c] =
              [NoCallRecord EXCEPT !.op = "getFromObjectStore", !.name = name,
                                   !.store = store, !.method = "get",
                                   !.startVersion = dbs[name].version,
                                   !.startQuiet = (opens = <<>>),
                                   !.pendingAtStart = Pending]]
    /\ UNCHANGED <<hasIDB, dbs, handles, opens, reqs, cache, mq>>

NextStandalone ==
    \/ \E c \in CallIds :
          \/ CreateObjectStore(c, FALSE)
          \/ PutToObjectStore(c, FALSE)
          \/ GetFromObjectStore(c, FALSE)
    \/ \E i \in 1 .. MaxCalls :
          \/ StandaloneUpgradeNeeded(i)
          \/ StandaloneBlocked(i)
          \/ StandaloneOpenSuccess(i)
          \/ StandaloneUpgradeSuccess(i)
          \/ StandaloneOpenError(i)
          \/ StandaloneUpgradeError(i)
          \/ PutUpgradeNeeded(i)
          \/ PutBlocked(i)
          \/ PutOpenSuccess(i)
          \/ PutUpgradeSuccess(i)
          \/ PutOpenError(i)
    \/ \E h \in 1 .. MaxCalls :
          \/ StandaloneHandleError(h)
          \/ CloseByCaller(h)
    \/ \E q \in reqs : PutRequestSuccess(q)
    \/ \E q \in reqs : PutRequestError(q)

StandaloneSpec == Init /\ [][NextStandalone]_vars

\* ================================================================== claims
IsMutation(cl) == cl.op \in {"createStore", "createIndex", "deleteIndex"}
IsDispatched(cl) == cl.op \in {"data", "getDBVersion"}
UsesOpenDB(cl) == cl.op = "openDB" \/ IsMutation(cl)
\* The call made last.
Latest(c) == calls[c].op # "none" /\ \A b \in CallIds : b > c => calls[b].op = "none"

\* C1: a caller never observes more than one settlement of a call, and
\* never a resolution and a rejection of the same call: the promise is
\* pending with nothing observed, or settled with exactly one observation,
\* however many times the handlers called resolve and reject.
C1_AtMostOneSettlement ==
    \A c \in CallIds :
        /\ calls[c].observed <= 1
        /\ (calls[c].promise = "pending") <=> (calls[c].observed = 0)

\* An openDB call rejected by a handle-level error whose request then got
\* success, and whose reject was called a third time by the error of a data
\* request bubbling to the same handle; and that data call, rejected by its
\* request-level error.
C1_Witness ==
    \E c, d \in CallIds :
        /\ calls[c].op = "openDB"
        /\ calls[c].promise = "rejected"
        /\ calls[c].gotSuccess
        /\ calls[c].settleCalls = 3
        /\ calls[d].op = "data"
        /\ calls[d].promise = "rejected"
        /\ calls[d].value = "RequestErrorEvent"

\* C2: every data operation that was dispatched eventually settles: its
\* promise does not stay pending forever, whatever name and collection it
\* was called with.
C2_EventuallySettles ==
    \A c \in CallIds :
        (calls[c].op = "data") ~> (calls[c].promise # "pending")

\* C3: #getIDBDatabase never rejects.  With an entry in the map it resolves
\* with that entry; without one it resolves with the connection a
\* successful open delivers, which is in the map when the caller resumes;
\* after an error event or an exception of the open it resolves with the
\* absent handle.
C3_ResolveNeverRejects ==
    \A c \in CallIds :
        LET cl == calls[c] IN
        /\ cl.res # "rejected"
        /\ cl.res = "resolved" =>
            /\ cl.how \in {"hit", "opened", "error", "threw"}
            /\ (cl.startCache # NoHandle) <=> (cl.how = "hit")
            /\ cl.how = "hit" => cl.db = cl.startCache
            /\ cl.how = "opened" =>
                   /\ cl.db # NoHandle
                   /\ handles[cl.db].name = cl.name
                   /\ cl.pc = "ready" => cache[cl.name] = cl.db
            /\ cl.how \in {"error", "threw"} => cl.db = NoHandle

\* One call resolved absent after the error event of its open, another
\* resolved with the connection its open delivered.
C3_Witness ==
    \E c, d \in CallIds :
        /\ calls[c].res = "resolved" /\ calls[c].how = "error"
        /\ calls[d].res = "resolved" /\ calls[d].how = "opened"

\* C4: of two dispatched calls made one after the other on the same name,
\* the first resolved on a handle and no open still in flight when the
\* second is made, the second issues no platform open, resolves the same
\* handle, and the map entry and its version stay what they were.
C4_CacheReuse ==
    \A c \in CallIds \ {1} :
        LET cl == calls[c]
            first == calls[c - 1]
        IN (/\ Latest(c)
            /\ IsDispatched(cl) /\ IsDispatched(first)
            /\ cl.name = first.name
            /\ first.promise = "resolved" /\ first.db # NoHandle
            /\ cl.startQuiet)
           => /\ cl.nOpens = 0
              /\ cl.startCache = first.db
              /\ cache[cl.name] = first.db
              /\ handles[first.db].version = cl.startVersion
              /\ cl.res = "resolved" => cl.db = first.db

\* Two data operations resolved one after the other on the same handle.
C4_Witness ==
    \E c \in CallIds \ {1} :
        /\ calls[c].op = "data" /\ calls[c - 1].op = "data"
        /\ calls[c].promise = "resolved" /\ calls[c - 1].promise = "resolved"
        /\ calls[c].startQuiet
        /\ calls[c].db = calls[c - 1].db
        /\ calls[c - 1].how = "opened"

\* C5: after schema mutations i..j made one after the other, each resolved,
\* the version of the cached handle is the version of the handle the first
\* one resolved plus their number.
C5_VersionPlusN ==
    \A i, j \in CallIds :
        (/\ i <= j
         /\ \A k \in i .. j : IsMutation(calls[k]) /\ calls[k].promise = "resolved"
         /\ calls[i].db # NoHandle)
        => calls[j].endVersion = calls[i].dbVersion + (j - i + 1)

\* The same, for mutations whose params carry no version of their own.
C5_WithoutExplicitVersion ==
    \A i, j \in CallIds :
        (/\ i <= j
         /\ \A k \in i .. j : /\ IsMutation(calls[k])
                               /\ calls[k].promise = "resolved"
                               /\ calls[k].version = NoVersion
         /\ calls[i].db # NoHandle)
        => calls[j].endVersion = calls[i].dbVersion + (j - i + 1)

\* C6: two createStore calls with the same name and collection, one after
\* the other and both resolved: the final cached handle has exactly one
\* collection of that name, and each call raised the version by one.
C6_CreateStoreTwice ==
    \A c \in CallIds \ {1} :
        LET cl == calls[c]
            first == calls[c - 1]
        IN (/\ cl.op = "createStore" /\ first.op = "createStore"
            /\ cl.name = first.name /\ cl.store = first.store
            /\ cl.promise = "resolved" /\ first.promise = "resolved")
           => /\ Cardinality({s \in handles[cl.cacheAtSuccess].stores :
                                s = cl.store}) = 1
              /\ first.endVersion = first.dbVersion + 1
              /\ cl.endVersion = first.endVersion + 1

\* The same, for calls that pass neither a version nor an upgrade routine.
C6_WithPlainParams ==
    \A c \in CallIds \ {1} :
        LET cl == calls[c]
            first == calls[c - 1]
        IN (/\ cl.op = "createStore" /\ first.op = "createStore"
            /\ cl.name = first.name /\ cl.store = first.store
            /\ cl.promise = "resolved" /\ first.promise = "resolved"
            /\ cl.version = NoVersion /\ first.version = NoVersion
            /\ ~cl.upgrade /\ ~first.upgrade)
           => /\ Cardinality({s \in handles[cl.cacheAtSuccess].stores :
                                s = cl.store}) = 1
              /\ first.endVersion = first.dbVersion + 1
              /\ cl.endVersion = first.endVersion + 1

\* C7: a schema mutation opens the store at the version of the handle it
\* resolved plus one, or at 1 when it resolved no handle, and at no other
\* version.
C7_OpensAtNextVersion ==
    \A c \in CallIds :
        (IsMutation(calls[c]) /\ calls[c].openIssued)
            => calls[c].openVersion =
                  IF calls[c].db # NoHandle THEN calls[c].dbVersion + 1 ELSE 1

\* C8: when a schema mutation has issued its open, the handle that was in
\* the map when the mutation started is closed, and was closed when the
\* open was issued.
C8_ClosedBeforeOpen ==
    \A c \in CallIds :
        (IsMutation(calls[c]) /\ calls[c].openIssued /\ calls[c].startCache # NoHandle)
            => /\ calls[c].closedFirst
               /\ handles[calls[c].startCache].closed

\* A mutation that started with a handle in the map and issued its open.
C8_Witness ==
    \E c \in CallIds :
        /\ IsMutation(calls[c])
        /\ calls[c].openIssued
        /\ calls[c].startCache # NoHandle
        /\ calls[c].db = calls[c].startCache

\* C9: once the success event of an openDB request was delivered, the
\* delivered handle was put in the map, the onsuccess hook (when supplied)
\* was called once with that handle, and the call is resolved.
C9_SuccessResolves ==
    \A c \in CallIds :
        (UsesOpenDB(calls[c]) /\ calls[c].gotSuccess)
            => /\ calls[c].cacheAtSuccess = calls[c].delivered
               /\ calls[c].hooks =>
                      calls[c].nOnsuccess = 1 /\ calls[c].onsuccessArg = calls[c].delivered
               /\ ~calls[c].hooks => calls[c].nOnsuccess = 0
               /\ calls[c].promise = "resolved"

\* C9 as amended: the call is resolved unless a handle-level error of the
\* upgrade had rejected it before the success event.
C9_SuccessResolvesUnlessRejected ==
    \A c \in CallIds :
        (UsesOpenDB(calls[c]) /\ calls[c].gotSuccess)
            => /\ calls[c].cacheAtSuccess = calls[c].delivered
               /\ calls[c].hooks =>
                      calls[c].nOnsuccess = 1 /\ calls[c].onsuccessArg = calls[c].delivered
               /\ ~calls[c].hooks => calls[c].nOnsuccess = 0
               /\ \/ calls[c].promise = "resolved" /\ calls[c].value = "this"
                  \/ calls[c].promise = "rejected" /\ calls[c].value = "HandleErrorEvent"

\* An openDB call with hooks, resolved by the success event.
C9_Witness ==
    \E c \in CallIds :
        /\ calls[c].op = "openDB"
        /\ calls[c].hooks
        /\ calls[c].gotSuccess
        /\ calls[c].promise = "resolved"
        /\ cache[calls[c].name] = calls[c].delivered

\* C10: once the error event of an openDB request was delivered, the
\* onerror hook (when supplied) was called and the call is rejected.
C10_ErrorCallsHook ==
    \A c \in CallIds :
        (UsesOpenDB(calls[c]) /\ calls[c].gotError)
            => /\ calls[c].promise = "rejected"
               /\ calls[c].hooks => calls[c].nOnerror >= 1

\* C11: a step that delivers blocked to an openDB request calls the blocked
\* hook once when one was supplied, leaves the call pending, closes no
\* handle and leaves the map alone; and while the request is blocked the
\* call stays pending.
C11_BlockedKeepsPending ==
    [][\A i \in 1 .. Len(opens) :
          LET c == opens[i].owner IN
          /\ (opens[i].phase = "open" /\ opens[i].state = "blocked")
                => calls[c].promise = "pending"
          /\ (/\ opens[i].phase = "open" /\ opens[i].state = "queued"
              /\ Len(opens') = Len(opens) /\ opens'[i].state = "blocked")
                => /\ calls[c].promise = "pending"
                   /\ calls'[c].promise = "pending"
                   /\ calls'[c].settleCalls = calls[c].settleCalls
                   /\ calls'[c].nBlocked =
                         calls[c].nBlocked + (IF calls[c].hooks THEN 1 ELSE 0)
                   /\ handles' = handles
                   /\ cache' = cache]_vars

\* An openDB call whose blocked hook was called and that resolved on the
\* success event delivered later.
C11_Witness ==
    \E c \in CallIds :
        /\ UsesOpenDB(calls[c])
        /\ calls[c].hooks
        /\ calls[c].nBlocked = 1
        /\ calls[c].gotSuccess
        /\ calls[c].promise = "resolved"

\* C12: when the upgrade routine of an openDB request was called, the map
\* entry of the name already was the new handle the routine was handed;
\* when the upgradeneeded handler has returned the routine has run; and
\* the call is resolved only once the success event was delivered, never
\* while the upgrade is still running.
C12_CachedBeforeUpgrade ==
    \A c \in CallIds :
        LET cl == calls[c] IN
        UsesOpenDB(cl) =>
            /\ cl.nUpgrade >= 1 =>
                  cl.upgradeArg # NoHandle /\ cl.cacheAtUpgrade = cl.upgradeArg
            /\ (cl.gotUpgrade /\ cl.routine # "none") => cl.nUpgrade >= 1
            /\ cl.promise = "resolved" => cl.gotSuccess
            /\ \A i \in 1 .. Len(opens) :
                  (opens[i].owner = c /\ opens[i].phase = "open"
                      /\ opens[i].state = "upgrading")
                  => cl.promise # "resolved"

\* An openDB call with an upgrade routine of the caller, which ran on the
\* cached new handle, resolved by the success event after the upgrade.
C12_Witness ==
    \E c \in CallIds :
        /\ calls[c].op = "openDB"
        /\ calls[c].routine = "user"
        /\ calls[c].nUpgrade = 1
        /\ calls[c].cacheAtUpgrade = calls[c].upgradeArg
        /\ calls[c].gotSuccess
        /\ calls[c].delivered = calls[c].upgradeArg
        /\ calls[c].promise = "resolved"

\* C13: an openDB call whose handle got an error event during the upgrade
\* is rejected with that error, whatever is delivered afterwards.
C13_HandleErrorRejects ==
    \A c \in CallIds :
        calls[c].gotHandleError =>
            /\ calls[c].promise = "rejected"
            /\ calls[c].value = "HandleErrorEvent"

\* A call rejected by the handle's error event whose upgrade then committed
\* and whose request got success.
C13_Witness ==
    \E c \in CallIds :
        /\ UsesOpenDB(calls[c])
        /\ calls[c].gotHandleError
        /\ calls[c].gotSuccess
        /\ calls[c].promise = "rejected"

\* C14: a data operation whose handle resolution gave no handle is rejected
\* with "No database <name>" once its dispatch has run, and it has called
\* db.transaction not once, invoked no store method and has no request.
C14_NoConnection ==
    \A c \in CallIds :
        LET cl == calls[c] IN
        (cl.op = "data" /\ cl.res = "resolved" /\ cl.db = NoHandle /\ cl.pc # "ready")
            => /\ cl.promise = "rejected"
               /\ cl.value = NoDatabase(cl.name)
               /\ cl.nTx = 0
               /\ ~cl.invoked
               /\ \A q \in reqs : q.owner # c

\* A data operation rejected with "No database A" after the open of its
\* handle resolution got the error event.
C14_Witness ==
    \E c \in CallIds :
        /\ calls[c].op = "data"
        /\ calls[c].how = "error"
        /\ calls[c].promise = "rejected"
        /\ calls[c].value = "No database A"
        /\ calls[c].pc = "done"

\* C15: a data operation whose request succeeded is resolved, a get with
\* the result of the request and every other method with the orchestrator;
\* one whose request got the error event is rejected with that event.
C15_ResolvesWithResult ==
    \A c \in CallIds :
        LET cl == calls[c] IN
        cl.op = "data" =>
            /\ cl.gotReqSuccess =>
                  /\ cl.promise = "resolved"
                  /\ cl.value = IF cl.method = "get" THEN cl.reqResult ELSE "this"
            /\ cl.gotReqError =>
                  cl.promise = "rejected" /\ cl.value = "RequestErrorEvent"

\* The same with get left out: the writes and the error event.
C15_WritesAndErrors ==
    \A c \in CallIds :
        LET cl == calls[c] IN
        cl.op = "data" =>
            /\ (cl.gotReqSuccess /\ cl.method # "get") =>
                  cl.promise = "resolved" /\ cl.value = "this"
            /\ cl.gotReqError =>
                  cl.promise = "rejected" /\ cl.value = "RequestErrorEvent"

\* C16: a put with key K, resolved, followed by a get of K on the same name
\* and collection, resolved: the get resolved with the value whose id is K.
C16_PutThenGet ==
    \A c \in CallIds \ {1} :
        LET cl == calls[c]
            first == calls[c - 1]
        IN (/\ first.op = "data" /\ first.method = "put"
            /\ cl.op = "data" /\ cl.method = "get"
            /\ cl.name = first.name /\ cl.store = first.store
            /\ cl.key = first.key
            /\ first.promise = "resolved" /\ cl.promise = "resolved")
           => cl.value = first.key

\* The same of the request below: the result of the get request is the
\* value whose id is K.
C16_RequestRoundTrip ==
    \A c \in CallIds \ {1} :
        LET cl == calls[c]
            first == calls[c - 1]
        IN (/\ first.op = "data" /\ first.method = "put"
            /\ cl.op = "data" /\ cl.method = "get"
            /\ cl.name = first.name /\ cl.store = first.store
            /\ cl.key = first.key
            /\ first.promise = "resolved" /\ cl.promise = "resolved")
           => cl.reqResult = first.key

\* C17: when put or add called with a key has invoked the store method,
\* the value it handed over has the key in its id field.
C17_KeyInlined ==
    \A c \in CallIds :
        LET cl == calls[c] IN
        (cl.op = "data" /\ cl.method \in {"add", "put"} /\ cl.key # NoKey /\ cl.invoked)
            => cl.sentId = cl.key

\* The same for put alone.
C17_PutKeyInlined ==
    \A c \in CallIds :
        LET cl == calls[c] IN
        (cl.op = "data" /\ cl.method = "put" /\ cl.invoked)
            => cl.sentId = cl.key /\ cl.sentKey = NoKey

\* C18: a data operation in which db.transaction or the store method threw
\* is rejected with what was thrown, and its dispatch is over.
C18_ThrownRejects ==
    \A c \in CallIds :
        LET cl == calls[c] IN
        (cl.op = "data" /\ cl.threw # "none")
            => /\ cl.promise = "rejected"
               /\ cl.value = cl.threw
               /\ cl.pc = "done"
               /\ \A q \in reqs : q.owner # c

\* A data operation on a handle a schema mutation had closed: db.transaction
\* threw and the call is rejected with the exception.
C18_Witness ==
    \E c \in CallIds :
        /\ calls[c].op = "data"
        /\ calls[c].threw = "InvalidStateError"
        /\ calls[c].nTx = 1
        /\ handles[calls[c].db].closed
        /\ calls[c].promise = "rejected"

\* C19: openDB, createStore, createIndex or deleteIndex called without a
\* name, or where window has no indexedDB, issues no open request, never
\* sets an entry of the map, and ends rejected with
\* NO_INDEXED_DB or "Missing database name".
C19_FailsWithoutOpen ==
    \A c \in CallIds :
        LET cl == calls[c] IN
        (UsesOpenDB(cl) /\ (cl.name = MissingName \/ ~hasIDB))
            => /\ cl.nOpens = 0
               /\ cl.pc \in {"ready", "done"}
               /\ cl.nCacheSets = 0
               /\ cl.pc = "done" =>
                     /\ cl.promise = "rejected"
                     /\ cl.value = IF ~hasIDB THEN "NO_INDEXED_DB"
                                   ELSE "Missing database name"

\* The same for openDB on its own, and for every one of them where window
\* has no indexedDB.
C19_OpenDBFailsWithoutOpen ==
    \A c \in CallIds :
        LET cl == calls[c] IN
        (UsesOpenDB(cl) /\ ((cl.op = "openDB" /\ cl.name = MissingName) \/ ~hasIDB))
            => /\ cl.nOpens = 0
               /\ cl.pc \in {"ready", "done"}
               /\ cl.nCacheSets = 0
               /\ cl.pc = "done" =>
                     /\ cl.promise = "rejected"
                     /\ cl.value = IF ~hasIDB THEN "NO_INDEXED_DB"
                                   ELSE "Missing database name"

\* C20: every call made on the orchestrator, getAll, getAllKeys and getKey
\* included, eventually settles, with a platform that delivers an event
\* for every request.
C20_EveryCallSettles ==
    \A c \in CallIds :
        (calls[c].op # "none") ~> (calls[c].promise # "pending")

\* The connection of the most recent open of name n that ended in success
\* (the opens of one name end in the order their connections were made).
LastSucceeded(n) ==
    LET S == {h \in 1 .. Len(handles) : handles[h].name = n /\ handles[h].succeeded}
    IN IF S = {} THEN NoHandle ELSE CHOOSE h \in S : \A g \in S : g <= h

VersionOf(h) == IF h = NoHandle THEN NoVersion ELSE handles[h].version

Upgrading(n) ==
    \E i \in 1 .. Len(opens) : opens[i].name = n /\ opens[i].state = "upgrading"

\* C21: for every name with no upgrade running, the map entry is the
\* connection of the most recent open of the name that ended in success,
\* and so has its version: an open that ended in error, or whose upgrade
\* failed, has left no entry of its own.
C21_CacheIsLastSuccess ==
    \A n \in DOMAIN cache :
        ~Upgrading(n) =>
            /\ VersionOf(cache[n]) = VersionOf(LastSucceeded(n))
            /\ cache[n] # NoHandle => handles[cache[n]].succeeded

\* The same for the opens that need no upgrade: the success handlers are
\* then the only callers of #setIDBDatabase.
C21_WithoutFailedUpgrade ==
    \A n \in DOMAIN cache :
        (\A c \in CallIds : calls[c].name = n /\ calls[c].gotUpgrade => calls[c].gotSuccess)
            => \/ Upgrading(n)
               \/ cache[n] = LastSucceeded(n)
\* A step touches name n when it changes the map entry of n, the stored
\* database n or a connection of n.
Touched(n) ==
    \/ cache'[n] # cache[n]
    \/ dbs'[n] # dbs[n]
    \/ \E h \in 1 .. Len(handles) : handles[h].name = n /\ handles'[h] # handles[h]

\* C22: a step of a call on one name, failing or not, touches no other
\* name: the map entry, the connections and the stored database of every
\* other name are what they would be had the call not been made.  (A step
\* of the platform alone, the start of an upgrade, touches the name of its
\* request only.)
C22_OtherNamesUntouched ==
    [][\A n \in DOMAIN cache :
          /\ \A c \in CallIds :
                (calls'[c] # calls[c] /\ calls'[c].name # n) => ~Touched(n)
          /\ (calls' = calls /\ Touched(n)) =>
                \E i \in 1 .. Len(opens) :
                    /\ opens[i].name = n
                    /\ Len(opens') = Len(opens)
                    /\ opens'[i] # opens[i]]_vars

\* A call on A that failed, and a data operation on B made after it that
\* resolved on the cached handle of B, which is open.
C22_Witness ==
    \E c, d \in CallIds :
        /\ c < d
        /\ calls[c].name = "A" /\ calls[c].promise = "rejected"
        /\ calls[d].name = OtherName /\ calls[d].op = "data"
        /\ calls[d].promise = "resolved"
        /\ cache[OtherName] = calls[d].db
        /\ ~handles[cache[OtherName]].closed
\* C23: of two schema mutations on the same name, the second made while
\* the first was pending, which resolved handles of the same version and
\* opened at the same next version, at most one is resolved.  (Stated for
\* mutations whose params carry no version and that each resolved a handle.)
C23_RacingMutationsNotBothResolved ==
    \A c, m \in CallIds :
        (/\ c < m
         /\ IsMutation(calls[c]) /\ IsMutation(calls[m])
         /\ calls[c].name = calls[m].name
         /\ calls[c].version = NoVersion /\ calls[m].version = NoVersion
         /\ c \in calls[m].pendingAtStart
         /\ calls[c].openIssued /\ calls[m].openIssued
         /\ calls[c].db # NoHandle /\ calls[m].db # NoHandle
         /\ calls[c].dbVersion = calls[m].dbVersion
         /\ calls[c].openVersion = calls[m].openVersion)
        => ~(calls[c].promise = "resolved" /\ calls[m].promise = "resolved")
\* C27: when a createStore call is resolved, the handle that was in the map
\* for its name when it resolved contains the collection.
C27_ResolvedStoreExists ==
    \A c \in CallIds :
        (calls[c].op = "createStore" /\ calls[c].promise = "resolved")
            => /\ calls[c].cacheAtSuccess # NoHandle
               /\ calls[c].store \in handles[calls[c].cacheAtSuccess].stores

\* The same for a createStore call with neither a version nor an upgrade
\* routine of its own, made with no other call pending, that resolved a
\* handle.
C27_PlainAwaitedStoreExists ==
    \A c \in CallIds :
        (/\ calls[c].op = "createStore" /\ calls[c].promise = "resolved"
         /\ calls[c].version = NoVersion /\ ~calls[c].upgrade
         /\ calls[c].pendingAtStart = {}
         /\ calls[c].db # NoHandle)
            => /\ calls[c].cacheAtSuccess # NoHandle
               /\ calls[c].store \in handles[calls[c].cacheAtSuccess].stores
\* A data operation whose executor found the collection missing: pending,
\* with no db.transaction call, no store method invoked and no request.
StuckAsFound(cl, c, rq) ==
    /\ cl.promise = "pending"
    /\ cl.nTx = 0
    /\ ~cl.invoked
    /\ \A q \in rq : q.owner # c

\* C25: a data operation whose resolved handle lacks the collection has
\* started no transaction and has no request, is pending, and nothing that
\* happens afterwards changes that.
C25_MissingCollectionHangs ==
    [][\A c \in CallIds :
          /\ calls[c].pc = "stuck" =>
                StuckAsFound(calls[c], c, reqs) /\ calls'[c] = calls[c]
          /\ calls'[c].pc = "stuck" =>
                /\ StuckAsFound(calls'[c], c, reqs')
                /\ calls'[c].db # NoHandle
                /\ calls'[c].store \notin handles'[calls'[c].db].stores]_vars

\* A data operation on a handle without the collection, still pending after
\* a later call has been made and has settled.
C25_Witness ==
    \E c, d \in CallIds :
        /\ c < d
        /\ calls[c].op = "data"
        /\ calls[c].pc = "stuck"
        /\ calls[c].promise = "pending"
        /\ calls[c].store \notin handles[calls[c].db].stores
        /\ calls[d].promise # "pending"
\* The open request of call c to which the platform is about to deliver
\* upgradeneeded.
OwnUpgradeNeeded(c) ==
    \E i \in 1 .. Len(opens) :
        /\ opens[i].owner = c
        /\ opens[i].phase # "resolve"
        /\ opens[i].state \in {"queued", "blocked"}
        /\ WantedVersion(opens[i]) > dbs[opens[i].name].version
        /\ opens'[i].state = "upgrading"
        /\ calls'[c].upgradeArg = opens'[i].handle

\* The open request of call c, asking for the stored version, to which the
\* platform is about to deliver success without an upgrade.
OwnPlainSuccess(c) ==
    \E i \in 1 .. Len(opens) :
        /\ opens[i].owner = c
        /\ opens[i].phase # "resolve"
        /\ opens[i].state = "queued"
        /\ WantedVersion(opens[i]) = dbs[opens[i].name].version
        /\ ~calls[c].gotSuccess
        /\ calls'[c].gotSuccess

\* C26: the upgrade routine of an openDB request is called at most once,
\* and only in the step that delivers upgradeneeded to the call's own open
\* request; when the request asks for the stored version, success arrives
\* with the routine never called and the promise is resolved.
C26_UpgradeAtMostOnce ==
    [][\A c \in CallIds :
          calls'[c].routine # "none" =>
            /\ calls'[c].nUpgrade <= 1
            /\ calls'[c].nUpgrade # calls[c].nUpgrade => OwnUpgradeNeeded(c)
            /\ OwnPlainSuccess(c) =>
                  /\ calls'[c].nUpgrade = 0
                  /\ calls'[c].promise = "resolved"]_vars

\* Two openDB calls with a routine of the caller, for the same explicit
\* version: the first raised the version and its routine ran once, the
\* second found the version stored and resolved with its routine not run.
C26_Witness ==
    \E c, d \in CallIds :
        /\ c # d
        /\ calls[c].op = "openDB" /\ calls[d].op = "openDB"
        /\ calls[c].routine = "user" /\ calls[d].routine = "user"
        /\ calls[c].name = calls[d].name
        /\ calls[c].version = calls[d].version
        /\ calls[c].nUpgrade = 1 /\ calls[c].promise = "resolved"
        /\ calls[d].nUpgrade = 0 /\ calls[d].gotSuccess
        /\ calls[d].promise = "resolved"
\* No call is in flight: every call made has settled and the platform has
\* no open request, no request and no continuation left to run.
NoCallInFlight ==
    /\ Pending = {}
    /\ opens = <<>>
    /\ reqs = {}
    /\ mq = <<>>

\* C28: whenever no call is in flight, every handle in the map is an open
\* connection.
C28_CachedHandlesOpen ==
    NoCallInFlight =>
        \A n \in AllNames : cache[n] # NoHandle => ~handles[cache[n]].closed
\* The particular case: a schema mutation that was rejected leaves, once no
\* call is in flight, an open connection in the map under its name.
C28_AfterFailedMutation ==
    NoCallInFlight =>
        \A c \in CallIds :
            (IsMutation(calls[c]) /\ calls[c].promise = "rejected"
                /\ calls[c].db # NoHandle /\ cache[calls[c].name] # NoHandle)
                => ~handles[cache[calls[c].name]].closed
\* The connections the orchestrator opened that are still open.
OpenConnections(n) ==
    {h \in 1 .. Len(handles) :
        handles[h].name = n /\ ~handles[h].closed /\ ~handles[h].upgrading}

\* C29: once no call is in flight, every connection of a name that is not
\* the map entry of the name has been closed.
C29_OnlyCachedConnectionOpen ==
    NoCallInFlight =>
        \A n \in AllNames : OpenConnections(n) \subseteq {cache[n]}
\* Data call c was made while schema mutation m on the same name was
\* pending.
Raced(c, m) ==
    /\ calls[c].op = "data"
    /\ calls[c].method \notin EmptyExecutors
    /\ m \in calls[c].pendingAtStart
    /\ IsMutation(calls[m])
    /\ calls[m].name = calls[c].name

\* A data call racing a createStore of its own collection that resolved
\* with the collection made is not left without a settlement.
C30_RacedNotStuck ==
    \A c, m \in CallIds :
        (/\ Raced(c, m)
         /\ calls[m].op = "createStore"
         /\ calls[m].store = calls[c].store
         /\ calls[m].promise = "resolved"
         /\ calls[m].cacheAtSuccess # NoHandle
         /\ calls[m].store \in handles[calls[m].cacheAtSuccess].stores)
            => calls[c].pc # "stuck"

\* A data call racing a schema mutation never puts a handle in the map.
C30_RacedKeepsCache ==
    \A c, m \in CallIds : Raced(c, m) => calls[c].nCacheSets = 0

\* C30: a data operation made while a schema mutation on the same name is
\* pending is never left pending by the race and never changes the map.
C30_RacingDataOpSettles ==
    C30_RacedNotStuck /\ C30_RacedKeepsCache
\* A call of the standalone createObjectStore for a database that did not
\* exist, with no open request in flight, with a version of 1 or more.
StandaloneFresh(c) ==
    /\ calls[c].op = "createObjectStore"
    /\ hasIDB
    /\ calls[c].startVersion = 0
    /\ calls[c].startQuiet
    /\ calls[c].version >= 1

\* C24: the standalone createObjectStore, called with version v >= 1 for a
\* database that does not exist yet, resolves as soon as its open request
\* gets upgradeneeded, is rejected only when the platform failed the open,
\* and the connection it resolved with has the name asked for, version v
\* and exactly the one collection asked for.
C24_StandaloneCreates ==
    \A c \in CallIds :
        StandaloneFresh(c) =>
            /\ calls[c].promise = "resolved" =>
                  /\ calls[c].delivered # NoHandle
                  /\ handles[calls[c].delivered].name = calls[c].name
                  /\ handles[calls[c].delivered].version = calls[c].version
                  /\ handles[calls[c].delivered].stores = {calls[c].store}
            /\ calls[c].promise = "rejected" => calls[c].gotError
            /\ calls[c].promise = "pending" =>
                  \E i \in 1 .. Len(opens) :
                      opens[i].owner = c /\ opens[i].state = "queued"

\* Such a call with version 2 and hooks, resolved, its upgrade committed
\* and its onsuccess hook called once with the connection.
C24_Witness ==
    \E c \in CallIds :
        /\ StandaloneFresh(c)
        /\ calls[c].version = 2
        /\ calls[c].store = "s2"
        /\ calls[c].promise = "resolved"
        /\ handles[calls[c].delivered].succeeded
        /\ handles[calls[c].delivered].stores = {"s2"}
        /\ calls[c].nOnsuccess = 1
        /\ calls[c].onsuccessArg = calls[c].delivered
====
